---------------------------- MODULE Spec2Model ----------------------------
(***************************************************************************)
(* A model of halow_scanner.py: the HaLowScanner class (channel catalog    *)
(* loading, SDR open/close, tuned acquisition, per-channel analysis, the   *)
(* all-channel scan and its ranking) and the main() entry point.           *)
(*                                                                         *)
(* Three specifications share the actions below:                           *)
(*   Spec        one run of main()                                         *)
(*   SpecAPI     a client calling analyze_channel / scan_all_channels      *)
(*               directly on a constructed HaLowScanner                    *)
(*   SpecWindow  the frequency axis and bandwidth mask as pure functions   *)
(*                                                                         *)
(* Abstractions.  A sample batch is represented by the power level it      *)
(* carries in every bin (a flat spectrum), so the windowed percentile and  *)
(* mean of a non-empty window are that level; the level is a property of   *)
(* the tuned frequency, the same for the reads of one tuning.  dB          *)
(* conversion is strictly increasing and is represented by the             *)
(* accumulated linear power.  The FFT size is 2^FftBits instead of 2^18.   *)
(* Frequency offsets are kept exact by scaling them with 2 * n (the code's *)
(* float arithmetic is exact too: the step is sample_rate / 2^18).  The    *)
(* verbose per-channel lines of analyze_channel are not modelled.          *)
(***************************************************************************)
EXTENDS Integers, Sequences, FiniteSets

----------------------------------------------------------------------------
(* Bounds of the model *)

MaxRows == 2
MaxChan == 2
MaxLevel == 2
FftBits == 2
MaxCalls == 1

(* Program constants *)

NumIterations == 3
DefaultSampleRate == 2400000

(* num_samples, a power of two: 2^FftBits in place of 256*1024 = 2^18 *)
FftSize == 2^FftBits

Region == "US"
BandwidthChoices == <<1, 2, 4, 8>>

----------------------------------------------------------------------------
(* Small helpers *)

Abs(x) == IF x < 0 THEN -x ELSE x

InSeq(x, s) == \E i \in 1..Len(s) : s[i] = x

SeqToSet(s) == { s[i] : i \in 1..Len(s) }

IsPrefix(s, t) == Len(s) <= Len(t) /\ \A i \in 1..Len(s) : s[i] = t[i]

RECURSIVE InsertInt(_, _)
InsertInt(s, x) ==
    IF s = <<>> THEN <<x>>
    ELSE IF x < Head(s) THEN <<x>> \o s
    ELSE <<Head(s)>> \o InsertInt(Tail(s), x)

RECURSIVE SortedInts(_)
SortedInts(s) ==
    IF s = <<>> THEN <<>>
    ELSE InsertInt(SortedInts(SubSeq(s, 1, Len(s) - 1)), s[Len(s)])

RECURSIVE SetToSortedSeq(_)
SetToSortedSeq(S) ==
    IF S = {} THEN <<>>
    ELSE LET m == CHOOSE x \in S : \A y \in S : x <= y
         IN  <<m>> \o SetToSortedSeq(S \ {m})

----------------------------------------------------------------------------
(* The channel table: rows of the CSV file *)

CsvBandwidths == {-1, 1, 2, 4, 8}

CsvRows ==
    { [country_code |-> "US", s1g_chan |-> n, centre_freq_mhz |-> 902 + n, bw |-> b] :
        n \in 1..MaxChan, b \in CsvBandwidths }
    \cup { [country_code |-> "EU", s1g_chan |-> 1, centre_freq_mhz |-> 863, bw |-> 1] }

RowSeqs == UNION { [1..k -> CsvRows] : k \in 0..MaxRows }

CsvFiles == { [exists |-> FALSE, rows |-> <<>>] }
            \cup { [exists |-> TRUE, rows |-> r] : r \in RowSeqs }

(* _load_channels_from_csv: the rows of the region, first centre frequency *)
(* wins, bandwidths de-duplicated in row order.                            *)
RECURSIVE LoadRows(_, _, _)
LoadRows(rows, region, chans) ==
    IF rows = <<>> THEN chans
    ELSE LET row == Head(rows)
             n == row.s1g_chan
             added == IF n \in DOMAIN chans THEN chans
                      ELSE [c \in DOMAIN chans \cup {n} |->
                              IF c = n THEN [freq |-> row.centre_freq_mhz, bws |-> <<>>]
                              ELSE chans[c]]
             withBw == IF InSeq(row.bw, added[n].bws) THEN added
                       ELSE [added EXCEPT ![n].bws = Append(@, row.bw)]
         IN  IF row.country_code = region
             THEN LoadRows(Tail(rows), region, withBw)
             ELSE LoadRows(Tail(rows), region, chans)

NoChannels == [c \in {} |-> [freq |-> 0, bws |-> <<>>]]

LoadChannels(rows, region) ==
    LET loaded == LoadRows(rows, region, NoChannels)
    IN  [c \in DOMAIN loaded |-> [loaded[c] EXCEPT !.bws = SortedInts(@)]]

(* The file after "for row in reader": every row was read *)
ReadToEnd(file) == [file EXCEPT !.rows = <<>>]

(* Variant of ConstructorRaises without the "if not self.channels" test *)
ConstructorRaisesNoEmptyCheck(file, region) == ~file.exists

(* HaLowScanner.__init__ raises: FileNotFoundError from the loader, or     *)
(* ValueError when the region has no channels.                             *)

ConstructorRaises(file, region) ==
    \/ ~file.exists
    \/ DOMAIN LoadChannels(file.rows, region) = {}

----------------------------------------------------------------------------
(* Pure parts of the measurement *)

(* np.arange(-sample_rate/2, sample_rate/2, sample_rate/n), each offset    *)
(* multiplied by 2 * n: offset i is (2 * (i - 1) - n) * sample_rate.       *)
Frequencies(sample_rate, n) == [i \in 1..n |-> (2 * (i - 1) - n) * sample_rate]

(* Variant of FreqMask comparing with < instead of <= *)
FreqMaskStrict(freqs, n, bandwidth_mhz) ==
    { i \in 1..Len(freqs) : Abs(freqs[i]) < bandwidth_mhz * 1000000 * n }

(* np.abs(frequencies) <= bandwidth_hz / 2, on the scaled offsets:         *)
(* |offset| <= bandwidth_hz / 2 iff |2 n offset| <= bandwidth_hz * n.      *)

FreqMask(freqs, n, bandwidth_mhz) ==
    { i \in 1..Len(freqs) : Abs(freqs[i]) <= bandwidth_mhz * 1000000 * n }

(* Variant of ValidPair without the bandwidth test *)
ValidPairAnyBandwidth(chans, channel_num, bandwidth_mhz) == channel_num \in DOMAIN chans

(* channel_num in self.channels and bandwidth_mhz in available_bw *)

ValidPair(chans, channel_num, bandwidth_mhz) ==
    /\ channel_num \in DOMAIN chans
    /\ InSeq(bandwidth_mhz, chans[channel_num].bws)

(* Variant of SortedKeys iterating in descending order *)
SortedKeysDescending(chans) ==
    LET s == SetToSortedSeq(DOMAIN chans)
    IN  [i \in 1..Len(s) |-> s[Len(s) + 1 - i]]

(* sorted(self.channels.keys()) *)
SortedKeys(chans) == SetToSortedSeq(DOMAIN chans)

(* A noise floor is <<v>>, or <<>> for NaN; every comparison with NaN is   *)
(* false, as for Python floats.                                            *)
NaN == <<>>

Less(a, b) == a # NaN /\ b # NaN /\ a[1] < b[1]

(* Insertion step of the stable sort: the new element goes after every    *)
(* element it is not less than.                                            *)
RECURSIVE InsertByNoise(_, _)
InsertByNoise(s, x) ==
    IF s = <<>> THEN <<x>>
    ELSE IF Less(x.noise_floor_db, Head(s).noise_floor_db) THEN <<x>> \o s
    ELSE <<Head(s)>> \o InsertByNoise(Tail(s), x)

(* Variant of the sort that puts an element before its equals *)
RECURSIVE InsertByNoiseUnstable(_, _)
InsertByNoiseUnstable(s, x) ==
    IF s = <<>> THEN <<x>>
    ELSE IF ~Less(Head(s).noise_floor_db, x.noise_floor_db) THEN <<x>> \o s
    ELSE <<Head(s)>> \o InsertByNoiseUnstable(Tail(s), x)

RECURSIVE SortByNoiseUnstable(_)
SortByNoiseUnstable(s) ==
    IF s = <<>> THEN <<>>
    ELSE InsertByNoiseUnstable(SortByNoiseUnstable(SubSeq(s, 1, Len(s) - 1)), s[Len(s)])

(* results.sort(key=lambda x: x.noise_floor_db) *)
RECURSIVE SortByNoise(_)
SortByNoise(s) ==
    IF s = <<>> THEN <<>>
    ELSE InsertByNoise(SortByNoise(SubSeq(s, 1, Len(s) - 1)), s[Len(s)])

----------------------------------------------------------------------------
(* State *)

VARIABLES
    args,       \* parsed command line: [all_bandwidths, bandwidth]
    csv,        \* the channel table file: [exists, rows not yet read]
    entry,      \* outermost call: "main", "scan" or "analyze" (direct calls)
    pc,         \* position of the single thread
    channels,   \* self.channels
    sdr,        \* self.sdr: "None" or "RtlSdr"
    dev,        \* the receiver handle: "never" opened, "open", "closed"
    hwTouched,  \* some hardware operation was attempted
    bwTodo,     \* bandwidths main() has still to scan
    curBw,      \* bandwidth_mhz of the running scan / analysis
    todo,       \* channel numbers the scan loop has still to visit
    curChan,    \* channel_num of the running analyze_channel
    ambient,    \* power level at the tuned frequency
    iter,       \* reads done in measure_power_spectrum
    acc,        \* power_accumulator
    results,    \* the results list of scan_all_channels
    measured,   \* the results in the order measured, before the sort
    attempted,  \* channels analyze_channel was invoked for, this scan
    failed,     \* channels whose tune or read raised, this scan
    diag,       \* channels named by an "Error scanning channel" line, this scan
    opLog,      \* hardware operations of the running analyze_channel call
    tuneLog,    \* [chan, bw] of every tuning, this scan
    printed,    \* one entry per print_results call
    msgs,       \* messages main() printed
    exitCode,   \* return value of main(), -1 while undetermined
    lost,       \* results a propagating KeyboardInterrupt discarded
    call,       \* arguments of the running / last direct call
    ret,        \* outcome of the last direct call
    calls,      \* direct calls made
    win,        \* SpecWindow: the inputs [sample_rate, n, b1, b2]
    sel         \* SpecWindow: the selected offsets for b1 and b2

vars == <<args, csv, entry, pc, channels, sdr, dev, hwTouched, bwTodo, curBw,
          todo, curChan, ambient, iter, acc, results, measured, attempted, failed,
          diag, opLog, tuneLog, printed, msgs, exitCode, lost, call, ret, calls,
          win, sel>>

cfgVars == <<args, csv, entry, channels, win, sel>>
apiVars == <<call, ret, calls>>
mainVars == <<bwTodo, printed>>
acqVars == <<ambient, iter, acc, opLog, tuneLog, hwTouched, failed>>

ArgSets == { [all_bandwidths |-> FALSE, bandwidth |-> BandwidthChoices[i]] :
               i \in 1..Len(BandwidthChoices) }
           \cup { [all_bandwidths |-> TRUE, bandwidth |-> 2] }

NoCall == [op |-> "none", chan |-> 0, bw |-> 0]
NoRet == [kind |-> "none", value |-> <<>>]
NoWin == [sample_rate |-> 0, n |-> 0, b1 |-> 0, b2 |-> 0]

InitRest ==
    /\ bwTodo = <<>> /\ curBw = 0 /\ todo = <<>> /\ curChan = 0
    /\ ambient = 0 /\ iter = 0 /\ acc = 0
    /\ results = <<>> /\ measured = <<>> /\ attempted = <<>>
    /\ failed = {} /\ diag = {}
    /\ opLog = <<>> /\ tuneLog = <<>> /\ printed = <<>>
    /\ msgs = {} /\ exitCode = -1 /\ lost = <<>>
    /\ call = NoCall /\ ret = NoRet /\ calls = 0

InitCommon ==
    /\ sdr = "None" /\ dev = "never" /\ hwTouched = FALSE
    /\ InitRest

(* main() after parse_args *)
Init ==
    /\ args \in ArgSets
    /\ csv \in CsvFiles
    /\ entry = "main"
    /\ pc = "start"
    /\ channels = NoChannels
    /\ win = NoWin /\ sel = <<{}, {}>>
    /\ InitCommon

----------------------------------------------------------------------------
(* Exceptions and returns of analyze_channel *)

(* Variant of ScanCatch that ends the scan at the first failing channel *)
ScanCatchAbort(kind) ==
    /\ pc' = "scan_loop"
    /\ todo' = <<>>
    /\ diag' = diag \cup {curChan}
    /\ UNCHANGED <<results, lost, msgs, exitCode, ret>>

(* Lines 254-255: an Exception inside the scan loop is caught there: a     *)
(* diagnostic naming the channel, then the next channel.                   *)
ScanCatch(kind) ==
    /\ pc' = "scan_loop"
    /\ todo' = Tail(todo)
    /\ diag' = diag \cup {curChan}
    /\ UNCHANGED <<results, lost, msgs, exitCode, ret>>

(* An exception leaves analyze_channel.  A KeyboardInterrupt is no         *)
(* Exception: it leaves scan_all_channels, whose local results list dies,  *)
(* and reaches main()'s handler (lines 352-353), which prints one line.    *)
(* A direct caller receives the exception.                                 *)
RaiseException(kind) ==
    IF kind # "KeyboardInterrupt" /\ entry \in {"main", "scan"}
    THEN ScanCatch(kind)
    ELSE IF entry = "main"
    THEN /\ pc' = "finally"
         /\ msgs' = msgs \cup {"interrupted"}
         /\ lost' = results
         /\ results' = <<>>
         /\ exitCode' = 0
         /\ UNCHANGED <<todo, diag, ret>>
    ELSE /\ pc' = "idle"
         /\ ret' = [kind |-> kind, value |-> <<>>]
         /\ results' = <<>>
         /\ UNCHANGED <<todo, diag, lost, msgs, exitCode>>

ReturnInfo(info) ==
    IF entry \in {"main", "scan"}
    THEN /\ results' = Append(results, info)
         /\ todo' = Tail(todo)
         /\ pc' = "scan_loop"
         /\ UNCHANGED <<diag, lost, msgs, exitCode, ret>>
    ELSE /\ ret' = [kind |-> "info", value |-> <<info>>]
         /\ pc' = "idle"
         /\ UNCHANGED <<results, todo, diag, lost, msgs, exitCode>>

Continue(next) ==
    /\ pc' = next
    /\ UNCHANGED <<results, todo, diag, lost, msgs, exitCode, ret>>

----------------------------------------------------------------------------
(* main(): construction, initialisation, the bandwidth loop, the handlers *)

CreateScanner ==
    /\ pc = "start"
    /\ IF ConstructorRaises(csv, Region)
       THEN /\ msgs' = msgs \cup {"load_error"}
            /\ exitCode' = 1
            /\ pc' = "done"
            /\ UNCHANGED channels
       ELSE /\ channels' = LoadChannels(csv.rows, Region)
            /\ pc' = "init_sdr"
            /\ UNCHANGED <<msgs, exitCode>>
    /\ csv' = IF csv.exists THEN ReadToEnd(csv) ELSE csv
    /\ UNCHANGED <<args, entry, win, sel, sdr, dev, hwTouched, bwTodo, curBw,
                   todo, curChan, ambient, iter, acc, results, measured, attempted, failed,
                   diag, opLog, tuneLog, printed, lost, call, ret, calls>>

(* initialize_sdr() and main()'s test of its result (lines 337-338).       *)
(* RtlSdr() may fail; once it succeeded self.sdr holds the open handle,    *)
(* and setting the sample rate or the gain may still fail.                 *)
InitializeSdr ==
    /\ pc = "init_sdr"
    /\ \E o \in {"ok", "open_fails", "sample_rate_fails", "gain_fails"} :
         /\ hwTouched' = TRUE
         /\ IF o = "open_fails"
            THEN UNCHANGED <<sdr, dev>>
            ELSE sdr' = "RtlSdr" /\ dev' = "open"
         /\ IF o = "ok"
            THEN /\ pc' = "main_loop"
                 /\ bwTodo' = IF args.all_bandwidths THEN BandwidthChoices
                              ELSE <<args.bandwidth>>
                 /\ UNCHANGED <<msgs, exitCode>>
            ELSE /\ msgs' = msgs \cup {"init_failed"}
                 /\ exitCode' = 1
                 /\ pc' = "done"
                 /\ UNCHANGED bwTodo
    /\ UNCHANGED <<cfgVars, apiVars, curBw, todo, curChan, ambient, iter, acc, results,
                   measured, attempted, failed, diag, opLog, tuneLog, printed, lost>>

(* Entry of scan_all_channels (lines 234-244) *)
ScanBegin(bandwidth_mhz) ==
    /\ curBw' = bandwidth_mhz
    /\ results' = <<>>
    /\ measured' = <<>>
    /\ attempted' = <<>>
    /\ failed' = {}
    /\ diag' = {}
    /\ tuneLog' = <<>>
    /\ todo' = SortedKeys(channels)
    /\ pc' = "scan_loop"

(* The for loop of main() (lines 341-350) calling scan_all_channels, which *)
(* raises RuntimeError without a receiver (line 234), and the normal end   *)
(* of the try.                                                             *)
MainLoop ==
    /\ pc = "main_loop"
    /\ IF bwTodo = <<>>
       THEN /\ pc' = "finally"
            /\ exitCode' = 0
            /\ UNCHANGED <<bwTodo, curBw, results, measured, attempted, failed,
                           diag, tuneLog, todo, msgs>>
       ELSE IF sdr = "None"
       THEN /\ pc' = "finally"
            /\ exitCode' = 1
            /\ msgs' = msgs \cup {"scan_error"}
            /\ UNCHANGED <<bwTodo, curBw, results, measured, attempted, failed,
                           diag, tuneLog, todo>>
       ELSE /\ ScanBegin(Head(bwTodo))
            /\ bwTodo' = Tail(bwTodo)
            /\ UNCHANGED <<exitCode, msgs>>
    /\ UNCHANGED <<cfgVars, apiVars, sdr, dev, hwTouched, curChan, ambient, iter, acc,
                   opLog, printed, lost>>

(* print_results (lines 262-283).  A print may raise (the output stream is *)
(* closed): main()'s "except Exception" handler then returns 1.            *)
PrintResults ==
    /\ pc = "print"
    /\ \E o \in {"ok", "io_error"} :
         IF o = "ok"
         THEN /\ printed' = Append(printed,
                   [bw |-> curBw, rows |-> results,
                    cleanest |-> IF results # <<>> THEN <<results[1].number>> ELSE <<>>])
              /\ pc' = IF args.all_bandwidths THEN "pause" ELSE "main_loop"
              /\ UNCHANGED <<msgs, exitCode>>
         ELSE /\ msgs' = msgs \cup {"scan_error"}
              /\ exitCode' = 1
              /\ pc' = "finally"
              /\ UNCHANGED printed
    /\ UNCHANGED <<cfgVars, apiVars, sdr, dev, hwTouched, bwTodo, curBw, todo,
                   curChan, ambient, iter, acc, results, measured, attempted, failed, diag,
                   opLog, tuneLog, lost>>

(* time.sleep(0.5) between scans (line 346) *)
Pause ==
    /\ pc = "pause"
    /\ \E o \in {"ok", "KeyboardInterrupt"} :
         IF o = "ok"
         THEN /\ pc' = "main_loop"
              /\ UNCHANGED <<msgs, exitCode>>
         ELSE /\ msgs' = msgs \cup {"interrupted"}
              /\ exitCode' = 0
              /\ pc' = "finally"
    /\ UNCHANGED <<cfgVars, apiVars, sdr, dev, hwTouched, bwTodo, curBw, todo,
                   curChan, ambient, iter, acc, results, measured, attempted, failed, diag,
                   opLog, tuneLog, printed, lost>>

(* close_sdr (lines 112-116) *)
CloseSdr ==
    IF sdr # "None"
    THEN sdr' = "None" /\ dev' = "closed"
    ELSE UNCHANGED <<sdr, dev>>

(* The finally clause and the return of main() (lines 359-363) *)
Finally ==
    /\ pc = "finally"
    /\ CloseSdr
    /\ msgs' = msgs \cup {"closed"}
    /\ pc' = "done"
    /\ UNCHANGED <<cfgVars, apiVars, hwTouched, bwTodo, curBw, todo, curChan,
                   ambient, iter, acc, results, measured, attempted, failed, diag, opLog,
                   tuneLog, printed, exitCode, lost>>

----------------------------------------------------------------------------
(* scan_all_channels: the loop over sorted(self.channels.keys()) *)

(* Lines 247-249: a channel that does not list the bandwidth is skipped *)
ScanSkip ==
    /\ pc = "scan_loop"
    /\ todo # <<>>
    /\ ~InSeq(curBw, channels[Head(todo)].bws)
    /\ todo' = Tail(todo)
    /\ UNCHANGED <<cfgVars, apiVars, mainVars, acqVars, pc, sdr, dev, curBw,
                   curChan, results, measured, attempted, diag, msgs, exitCode,
                   lost>>

(* Lines 251-252 and 180-188: analyze_channel is called and validates its  *)
(* arguments before it touches the receiver.                               *)
ScanAnalyze ==
    /\ pc = "scan_loop"
    /\ todo # <<>>
    /\ InSeq(curBw, channels[Head(todo)].bws)
    /\ curChan' = Head(todo)
    /\ ambient' = 0
    /\ attempted' = Append(attempted, Head(todo))
    /\ opLog' = <<>>
    /\ iter' = 0
    /\ acc' = 0
    /\ IF ValidPair(channels, Head(todo), curBw)
       THEN Continue("tune")
       ELSE /\ pc' = "scan_loop"
            /\ todo' = Tail(todo)
            /\ diag' = diag \cup {Head(todo)}
            /\ UNCHANGED <<results, lost, msgs, exitCode, ret>>
    /\ UNCHANGED <<cfgVars, call, calls, mainVars, tuneLog, hwTouched, failed,
                   sdr, dev, curBw, measured>>

(* Lines 257-260: the sort and the return, to main() or to the caller *)
ScanReturn ==
    /\ pc = "scan_loop"
    /\ todo = <<>>
    /\ measured' = results
    /\ results' = SortByNoise(results)
    /\ IF entry = "main"
       THEN pc' = "print" /\ UNCHANGED ret
       ELSE pc' = "idle" /\ ret' = [kind |-> "list", value |-> SortByNoise(results)]
    /\ UNCHANGED <<cfgVars, call, calls, mainVars, acqVars, sdr, dev, curBw, todo,
                   curChan, attempted, diag, msgs, exitCode, lost>>

----------------------------------------------------------------------------
(* measure_power_spectrum, one hardware operation per step *)

(* Line 132: self.sdr.center_freq = center_freq_hz.  With self.sdr None    *)
(* the assignment raises AttributeError and reaches no hardware.           *)
Tune ==
    /\ pc = "tune"
    /\ \E o \in {"ok", "error", "KeyboardInterrupt"} :
         IF sdr = "None"
         THEN /\ RaiseException("error")
              /\ UNCHANGED <<opLog, tuneLog, hwTouched, failed, ambient>>
         ELSE /\ opLog' = Append(opLog, "tune")
              /\ ambient' \in (IF o = "ok" THEN 1..MaxLevel ELSE {0})
              /\ tuneLog' = Append(tuneLog,
                    [chan |-> curChan, freq_hz |-> channels[curChan].freq * 1000000,
                     bw |-> curBw])
              /\ hwTouched' = TRUE
              /\ failed' = IF o = "error" THEN failed \cup {curChan} ELSE failed
              /\ IF o = "ok" THEN Continue("settle") ELSE RaiseException(o)
    /\ UNCHANGED <<cfgVars, call, calls, mainVars, sdr, dev, curBw, curChan,
                   iter, acc, measured, attempted>>

(* Line 135: time.sleep(0.1), once per tuning *)
Settle ==
    /\ pc = "settle"
    /\ \E o \in {"ok", "KeyboardInterrupt"} :
         /\ opLog' = Append(opLog, "settle")
         /\ IF o = "ok" THEN Continue("read") ELSE RaiseException(o)
    /\ UNCHANGED <<cfgVars, call, calls, mainVars, sdr, dev, curBw, curChan, ambient,
                   iter, acc, measured, attempted, tuneLog, hwTouched, failed>>

(* Variant of ReadOutcome that reads again after a failed read *)
ReadOutcomeRetry(o, level) ==
    /\ acc' = IF o = "ok" THEN acc + level ELSE acc
    /\ iter' = IF o = "ok" THEN iter + 1 ELSE iter
    /\ failed' = failed
    /\ IF o = "ok"
       THEN Continue(IF iter + 1 = NumIterations THEN "measure" ELSE "read")
       ELSE IF o = "error" THEN Continue("read") ELSE RaiseException(o)

(* Lines 140-152: one read_samples per iteration, its power accumulated.   *)
(* A failing read leaves the loop at once.                                 *)
ReadOutcome(o, level) ==
    /\ acc' = IF o = "ok" THEN acc + level ELSE acc
    /\ iter' = IF o = "ok" THEN iter + 1 ELSE iter
    /\ failed' = IF o = "error" THEN failed \cup {curChan} ELSE failed
    /\ IF o = "ok"
       THEN Continue(IF iter + 1 = NumIterations THEN "measure" ELSE "read")
       ELSE RaiseException(o)

Read ==
    /\ pc = "read"
    /\ \E o \in {"ok", "error", "KeyboardInterrupt"} :
         /\ opLog' = Append(opLog, "read")
         /\ ReadOutcome(o, ambient)
    /\ UNCHANGED <<cfgVars, call, calls, mainVars, sdr, dev, curBw, curChan,
                   ambient, measured, attempted, tuneLog, hwTouched>>

(* Lines 155-165 and 197-220: the average, the frequency axis, the mask,   *)
(* the 10th percentile and the mean of the masked values.  Of an empty     *)
(* selection numpy's mean is NaN, and its percentile is NaN or an          *)
(* IndexError, depending on the numpy version.                             *)
Measure ==
    /\ pc = "measure"
    /\ LET frequencies == Frequencies(DefaultSampleRate, FftSize)
           freq_mask == FreqMask(frequencies, FftSize, curBw)
           info(noise, avg) ==
               [number |-> curChan, center_freq_mhz |-> channels[curChan].freq,
                bandwidth_mhz |-> curBw, noise_floor_db |-> noise,
                avg_power_db |-> avg]
       IN  \E o \in {"nan", "IndexError"} :
             IF freq_mask # {}
             THEN ReturnInfo(info(<<acc>>, <<acc>>))
             ELSE IF o = "nan"
             THEN ReturnInfo(info(NaN, NaN))
             ELSE RaiseException("error")
    /\ UNCHANGED <<cfgVars, call, calls, mainVars, acqVars, sdr, dev, curBw,
                   curChan, measured, attempted>>

----------------------------------------------------------------------------
(* Direct calls on a constructed scanner *)

ApiBandwidths == CsvBandwidths \cup {3}

ApiAnalyze ==
    /\ pc = "idle"
    /\ calls < MaxCalls
    /\ \E channel_num \in 1..(MaxChan + 1), bandwidth_mhz \in ApiBandwidths :
         /\ call' = [op |-> "analyze", chan |-> channel_num, bw |-> bandwidth_mhz]
         /\ curChan' = channel_num
         /\ curBw' = bandwidth_mhz
         /\ IF ValidPair(channels, channel_num, bandwidth_mhz)
            THEN pc' = "tune" /\ ret' = NoRet
            ELSE pc' = "idle" /\ ret' = [kind |-> "ValueError", value |-> <<>>]
    /\ calls' = calls + 1
    /\ entry' = "analyze"
    /\ opLog' = <<>>
    /\ ambient' = 0
    /\ iter' = 0
    /\ acc' = 0
    /\ results' = <<>>
    /\ todo' = <<>>
    /\ UNCHANGED <<args, csv, channels, win, sel, mainVars, sdr, dev, hwTouched,
                   measured, attempted, failed, diag, tuneLog, msgs, exitCode,
                   lost>>

ApiScan ==
    /\ pc = "idle"
    /\ calls < MaxCalls
    /\ \E bandwidth_mhz \in ApiBandwidths :
         /\ call' = [op |-> "scan", chan |-> 0, bw |-> bandwidth_mhz]
         /\ IF sdr = "None"
            THEN /\ ret' = [kind |-> "RuntimeError", value |-> <<>>]
                 /\ UNCHANGED <<pc, curBw, results, measured, attempted, failed,
                                diag, tuneLog, todo>>
            ELSE /\ ScanBegin(bandwidth_mhz)
                 /\ ret' = NoRet
    /\ calls' = calls + 1
    /\ entry' = "scan"
    /\ opLog' = <<>>
    /\ UNCHANGED <<args, csv, channels, win, sel, mainVars, sdr, dev, hwTouched,
                   curChan, ambient, iter, acc, msgs, exitCode, lost>>

----------------------------------------------------------------------------
(* The frequency axis and the mask as pure functions *)

SampleRates == {1000000, 2000000, 2400000, 3200000}

ApplyWindow ==
    /\ pc = "window"
    /\ LET frequencies == Frequencies(win.sample_rate, win.n)
           offsets(b) == { frequencies[i] : i \in FreqMask(frequencies, win.n, b) }
       IN  sel' = <<offsets(win.b1), offsets(win.b2)>>
    /\ pc' = "windowed"
    /\ UNCHANGED <<args, csv, entry, channels, win, sdr, dev, hwTouched, bwTodo,
                   curBw, todo, curChan, ambient, iter, acc, results, measured, attempted,
                   failed, diag, opLog, tuneLog, printed, msgs, exitCode, lost,
                   call, ret, calls>>

----------------------------------------------------------------------------
(* Specifications *)

Next ==
    \/ CreateScanner
    \/ InitializeSdr
    \/ MainLoop
    \/ ScanSkip
    \/ ScanAnalyze
    \/ ScanReturn
    \/ Tune
    \/ Settle
    \/ Read
    \/ Measure
    \/ PrintResults
    \/ Pause
    \/ Finally

Spec == Init /\ [][Next]_vars

(* A scanner whose constructor returned, before or after a successful      *)
(* initialize_sdr().                                                       *)
InitAPI ==
    /\ args = [all_bandwidths |-> FALSE, bandwidth |-> 2]
    /\ \E f \in { g \in CsvFiles : ~ConstructorRaises(g, Region) } :
          /\ channels = LoadChannels(f.rows, Region)
          /\ csv = ReadToEnd(f)
    /\ entry = "none"
    /\ pc = "idle"
    /\ win = NoWin /\ sel = <<{}, {}>>
    /\ InitRest
    /\ \/ sdr = "None" /\ dev = "never" /\ hwTouched = FALSE
       \/ sdr = "RtlSdr" /\ dev = "open" /\ hwTouched = TRUE

NextAPI ==
    \/ ApiAnalyze
    \/ ApiScan
    \/ ScanSkip
    \/ ScanAnalyze
    \/ ScanReturn
    \/ Tune
    \/ Settle
    \/ Read
    \/ Measure

SpecAPI == InitAPI /\ [][NextAPI]_vars

InitWindow ==
    /\ args = [all_bandwidths |-> FALSE, bandwidth |-> 2]
    /\ csv = [exists |-> FALSE, rows |-> <<>>]
    /\ channels = NoChannels
    /\ entry = "none"
    /\ pc = "window"
    /\ win \in [sample_rate : SampleRates, n : { 2^k : k \in 1..FftBits },
                b1 : SeqToSet(BandwidthChoices), b2 : SeqToSet(BandwidthChoices)]
    /\ sel = <<{}, {}>>
    /\ InitCommon

NextWindow == ApplyWindow

SpecWindow == InitWindow /\ [][NextWindow]_vars

----------------------------------------------------------------------------
(* Properties *)

Eligible(bandwidth_mhz) ==
    { c \in DOMAIN channels : \E i \in 1..Len(channels[c].bws) :
                                 channels[c].bws[i] = bandwidth_mhz }

Numbers(rs) == { rs[i].number : i \in 1..Len(rs) }

StrictlyAscending(s) == \A i, j \in 1..Len(s) : i < j => s[i] < s[j]

InScan == pc \in {"scan_loop", "tune", "settle", "read", "measure"}

(* C1: whenever main() has returned and the receiver handle was opened     *)
(* during the run, the handle has been closed.                             *)
C1_GuaranteedRelease ==
    (pc = "done" /\ dev # "never") => dev = "closed"

(* C2: a scan in which acquisitions failed still returns; its result holds *)
(* exactly the eligible channels that did not fail, each once, and every   *)
(* failed channel is named by a diagnostic.                                *)
C2_PartialScanResilience ==
    /\ pc = "print" =>
         /\ Numbers(results) = Eligible(curBw) \ failed
         /\ Len(results) = Cardinality(Eligible(curBw) \ failed)
         /\ failed \subseteq diag
    /\ InScan => /\ failed \subseteq diag
                 /\ Numbers(results) \cap failed = {}
                 /\ exitCode = -1

C2_Witness ==
    /\ pc = "print"
    /\ failed # {}
    /\ results # <<>>
    /\ \E c \in failed : \E i \in 1..Len(results) : c < results[i].number

(* C3: after a KeyboardInterrupt that arrived in the scan loop when some   *)
(* channels had been measured, main() has printed those measurements.      *)
C3_InterruptReportsPartial ==
    (pc = "done" /\ "interrupted" \in msgs /\ lost # <<>>) =>
        \E i \in 1..Len(printed) :
            /\ printed[i].bw = curBw
            /\ \A k \in 1..Len(lost) : \E m \in 1..Len(printed[i].rows) :
                  printed[i].rows[m] = lost[k]

(* C4: a direct analyze_channel call whose channel is not in the catalog   *)
(* or whose bandwidth the channel does not list ends in ValueError, and    *)
(* the call performed no hardware operation.                               *)
C4_ValidationBeforeHardware ==
    (/\ call.op = "analyze"
     /\ ~(/\ call.chan \in DOMAIN channels
          /\ \E i \in 1..Len(channels[call.chan].bws) :
                channels[call.chan].bws[i] = call.bw))
    => /\ pc = "idle"
       /\ ret.kind = "ValueError"
       /\ opLog = <<>>
       /\ dev = "never" => ~hwTouched

C4_Witness ==
    /\ call.op = "analyze"
    /\ call.bw = 3
    /\ call.chan \in DOMAIN channels
    /\ sdr = "RtlSdr"
    /\ ret.kind = "ValueError"

Ranked(rs, ms) ==
    /\ Len(rs) = Len(ms)
    /\ \A k \in 1..Len(ms) : \E i \in 1..Len(rs) : rs[i] = ms[k]
    /\ \A i, j \in 1..Len(rs) :
          i < j => /\ rs[i].noise_floor_db[1] <= rs[j].noise_floor_db[1]
                   /\ rs[i].noise_floor_db = rs[j].noise_floor_db
                        => rs[i].number < rs[j].number

(* C5: the list scan_all_channels returns is a permutation of the          *)
(* measurements in ascending noise floor, equal noise floors in the order  *)
(* measured (ascending channel number); print_results names the first      *)
(* element as cleanest, and names none for an empty list.                  *)
C5_RankingStable ==
    /\ pc = "print" => /\ Ranked(results, measured)
                       /\ StrictlyAscending([i \in 1..Len(measured) |->
                                                measured[i].number])
    /\ \A i \in 1..Len(printed) :
          /\ Ranked(printed[i].rows, printed[i].rows)
          /\ printed[i].cleanest =
                IF Len(printed[i].rows) = 0 THEN <<>>
                ELSE <<printed[i].rows[1].number>>

C5_Witness ==
    /\ Len(printed) >= 1
    /\ Len(printed[1].rows) = 2
    /\ printed[1].rows[1].noise_floor_db = printed[1].rows[2].noise_floor_db
    /\ printed[1].cleanest = <<printed[1].rows[1].number>>

Symmetric(S) == \A f \in S : (0 - f) \in S

Axis == LET frequencies == Frequencies(win.sample_rate, win.n)
        IN  { frequencies[i] : i \in 1..win.n }

Monotone ==
    /\ win.b1 <= win.b2 => Cardinality(sel[1]) <= Cardinality(sel[2])
    /\ win.b2 <= win.b1 => Cardinality(sel[2]) <= Cardinality(sel[1])

(* C7: narrowing the bandwidth never selects more bins, and the selected   *)
(* offsets are symmetric around zero.                                      *)
C7_WindowSymmetric ==
    pc = "windowed" => Monotone /\ Symmetric(sel[1]) /\ Symmetric(sel[2])

AmendedSymmetry(b, S) ==
    LET lowest == (0 - win.n) * win.sample_rate
    IN  IF b * 1000000 < win.sample_rate
        THEN Symmetric(S)
        ELSE /\ S = Axis
             /\ lowest \in S
             /\ (0 - lowest) \notin S
             /\ Symmetric(S \ {lowest})

(* C7, amended: narrowing never selects more bins; a bandwidth below the   *)
(* sample rate selects a symmetric set; a bandwidth at or above the sample *)
(* rate selects the whole axis, which is symmetric but for its lowest      *)
(* offset -sample_rate/2, whose mirror is excluded from the axis.          *)
C7_WindowAmended ==
    pc = "windowed" =>
        /\ Monotone
        /\ AmendedSymmetry(win.b1, sel[1])
        /\ AmendedSymmetry(win.b2, sel[2])

C7_Witness ==
    /\ pc = "windowed"
    /\ win.sample_rate = 2400000
    /\ win.n = FftSize
    /\ win.b1 = 1 /\ win.b2 = 4
    /\ Cardinality(sel[1]) < Cardinality(sel[2])
    /\ Cardinality(sel[2]) = FftSize

CatalogError ==
    \/ ~csv.exists
    \/ IF pc = "start"
       THEN \A i \in 1..Len(csv.rows) : csv.rows[i].country_code # "US"
       ELSE DOMAIN channels = {}

(* C8: when the channel table is missing or holds no channel of the        *)
(* region, main() reports the error and returns 1, and the receiver was    *)
(* never opened nor any hardware operation attempted.                      *)
C8_CatalogErrorsPrecedeHardware ==
    CatalogError =>
        /\ ~hwTouched /\ dev = "never" /\ sdr = "None"
        /\ opLog = <<>> /\ tuneLog = <<>>
        /\ pc \in {"start", "done"}
        /\ pc = "done" => exitCode = 1 /\ "load_error" \in msgs

C8_Witness ==
    /\ pc = "done"
    /\ csv.exists
    /\ DOMAIN channels = {}
    /\ exitCode = 1
    /\ ~hwTouched

ExpectedOps == <<"tune", "settle", "read", "read", "read">>

(* C9: the hardware operations of one analyze_channel call are a prefix of *)
(* tune, settle, read x NumIterations, complete when the reads are done;   *)
(* after a failed tune or read the call makes no further operation.        *)
C9_AcquisitionOrder ==
    /\ IsPrefix(opLog, ExpectedOps)
    /\ pc = "settle" => opLog = <<"tune">>
    /\ pc = "read" => opLog = SubSeq(ExpectedOps, 1, 2 + iter) /\ iter < 3
    /\ pc = "measure" => opLog = ExpectedOps
    /\ \A i \in 1..Len(results) :
          (pc = "scan_loop" /\ results[i].number = curChan) => opLog = ExpectedOps
    /\ curChan \in failed => pc \notin {"tune", "settle", "read", "measure"}

C9_Witness ==
    /\ pc = "scan_loop"
    /\ Len(results) = 1
    /\ curChan \in failed
    /\ opLog = <<"tune", "settle", "read", "read">>

(* C10: a scan invokes analyze_channel for exactly the channels that list  *)
(* the bandwidth, each once, in ascending channel number, and tunes to no  *)
(* other channel; with --all-bandwidths the scans run in the order 1, 2,   *)
(* 4, 8, each printed before the next begins.                              *)
C10_ScanOrder ==
    /\ (InScan \/ pc = "print") =>
          /\ StrictlyAscending(attempted)
          /\ SeqToSet(attempted) \subseteq Eligible(curBw)
          /\ \A i \in 1..Len(tuneLog) :
                /\ tuneLog[i].bw = curBw
                /\ tuneLog[i].chan \in Eligible(curBw)
                /\ tuneLog[i].chan = attempted[i]
          /\ curBw = IF args.all_bandwidths THEN <<1, 2, 4, 8>>[Len(printed) + 1]
                     ELSE args.bandwidth
    /\ pc = "print" => SeqToSet(attempted) = Eligible(curBw)
    /\ \A i \in 1..Len(printed) :
          printed[i].bw = IF args.all_bandwidths THEN <<1, 2, 4, 8>>[i]
                          ELSE args.bandwidth
    /\ (pc = "done" /\ exitCode = 0 /\ "interrupted" \notin msgs) =>
          Len(printed) = IF args.all_bandwidths THEN 4 ELSE 1

C10_Witness ==
    /\ pc = "done"
    /\ args.all_bandwidths
    /\ Len(printed) = 4
    /\ Len(printed[2].rows) = 2
    /\ Len(printed[3].rows) = 0

============================================================================
